---- MODULE Spec2Model ----
(***************************************************************************)
(* Model of the network discovery and port-scanning engine of              *)
(* big-network-info: NetworkScanner.scan_network and                       *)
(* NetworkScanner._enhanced_host_discovery (core/scanner.py), the range    *)
(* parser parse_ip_range (utils/network.py) and the GUI worker that calls  *)
(* them (gui/main_window.py).                                              *)
(*                                                                         *)
(* An address string "a.b.c.d" is the tuple <<a, b, c, d>>.  A range       *)
(* specification is the sequence of its tokens: a decimal number is the    *)
(* number itself, the characters ".", "-" and "/" and a non-numeric word   *)
(* are the negative codes DOT, DASH, SLASH and WORD.                       *)
(***************************************************************************)
EXTENDS Integers, Sequences, FiniteSets, TLC

(* ------------------------------------------------------------------ *)
(* Bounds of the model                                                *)
(* ------------------------------------------------------------------ *)

\* MaxHost hosts exist on the LAN, 10.0.0.2 and upwards: only they can
\* answer a ping or a TCP connect, or appear in the neighbor table.
MaxHost == 2

\* The first NumServices entries of COMMON_SERVICES are the services to scan.
NumServices == 2

\* _get_vendor is called up to MaxCalls times on one scanner.
MaxCalls == 3

\* CIDR inputs of the range expansion have up to MaxHostBits host bits.
MaxHostBits == 9

\* Trailing-octet ranges of the range expansion run between the octets
\* 0..MaxOctet, 254 and 255.
MaxOctet == 4

(* ------------------------------------------------------------------ *)
(* Tokens of a range specification                                    *)
(* ------------------------------------------------------------------ *)

DOT == 0 - 1
DASH == 0 - 2
SLASH == 0 - 3
WORD == 0 - 4

\* "needle in haystack" and haystack.count(needle) of Python strings.
Contains(toks, t) == \E i \in DOMAIN toks : toks[i] = t

Count(toks, t) == Cardinality({i \in DOMAIN toks : toks[i] = t})

\* The position of the first token t.
IndexOf(toks, t) == CHOOSE i \in DOMAIN toks : toks[i] = t /\ \A j \in 1..(i - 1) : toks[j] # t

\* ipaddress.ip_address(s) accepts exactly four decimal octets in 0..255.
IsAddress(toks) ==
    /\ Len(toks) = 7
    /\ toks[2] = DOT /\ toks[4] = DOT /\ toks[6] = DOT
    /\ \A i \in {1, 3, 5, 7} : toks[i] \in 0..255

AddressOf(toks) == <<toks[1], toks[3], toks[5], toks[7]>>

\* int(ip_address) and str(ip_address(n)).
ToInt(ip) == ((ip[1] * 256 + ip[2]) * 256 + ip[3]) * 256 + ip[4]

FromInt(n) == <<n \div 16777216, (n \div 65536) % 256, (n \div 256) % 256, n % 256>>

\* 2^k for the host-bit counts the model uses.
RECURSIVE Pow2(_)
Pow2(k) == IF k = 0 THEN 1 ELSE 2 * Pow2(k - 1)

\* ipaddress.ip_network(s, strict=False): [ok, lo, hi, prefix], lo and hi the
\* network and broadcast address as integers.  A string without "/" is a /32.
IpNetwork(toks) ==
    IF Contains(toks, SLASH)
    THEN IF /\ Len(toks) = 9
            /\ toks[8] = SLASH
            /\ toks[9] \in 0..32
            /\ IsAddress(SubSeq(toks, 1, 7))
         THEN LET size == Pow2(32 - toks[9])
                  addr == ToInt(AddressOf(SubSeq(toks, 1, 7)))
                  lo   == (addr \div size) * size
              IN  [ok |-> TRUE, lo |-> lo, hi |-> lo + size - 1, prefix |-> toks[9]]
         ELSE [ok |-> FALSE, lo |-> 0, hi |-> 0, prefix |-> 0]
    ELSE IF IsAddress(toks)
         THEN [ok |-> TRUE, lo |-> ToInt(AddressOf(toks)),
               hi |-> ToInt(AddressOf(toks)), prefix |-> 32]
         ELSE [ok |-> FALSE, lo |-> 0, hi |-> 0, prefix |-> 0]

\* Every address of the network, the network and broadcast address too.
NetworkAddresses(net) ==
    [i \in 1..(net.hi - net.lo + 1) |-> FromInt(net.lo + i - 1)]

\* network.hosts(): network and broadcast address left out up to /30, both
\* addresses of a /31, the one address of a /32.
NetworkHosts(net) ==
    IF net.prefix <= 30
    THEN [i \in 1..(net.hi - net.lo - 1) |-> FromInt(net.lo + i)]
    ELSE [i \in 1..(net.hi - net.lo + 1) |-> FromInt(net.lo + i - 1)]

ParseError == [err |-> TRUE, ips |-> <<>>]

Parsed(ips) == [err |-> FALSE, ips |-> ips]

\* The octet loop with the end octet left out.
OctetRangeExclusive(start_ip, start_octet, end_octet) ==
    [i \in 1..(end_octet - start_octet) |->
        <<start_ip[1], start_ip[3], start_ip[5], start_octet + i - 1>>]

\* for i in range(start_octet, end_octet + 1): f"{base_ip}.{i}"
OctetRange(start_ip, start_octet, end_octet) ==
    [i \in 1..(end_octet - start_octet + 1) |->
        <<start_ip[1], start_ip[3], start_ip[5], start_octet + i - 1>>]

\* parse_ip_range(ip_range): err is the ValueError it raises.
parse_ip_range(ip_range) ==
    IF Contains(ip_range, SLASH)
    THEN LET network == IpNetwork(ip_range)
         IN  IF network.ok THEN Parsed(NetworkHosts(network)) ELSE ParseError
    ELSE IF Contains(ip_range, DASH)
    THEN IF Count(ip_range, DASH) = 1
         THEN LET k        == IndexOf(ip_range, DASH)
                  start_ip == SubSeq(ip_range, 1, k - 1)
                  end_part == SubSeq(ip_range, k + 1, Len(ip_range))
              IN  IF ~IsAddress(start_ip)
                  THEN ParseError
                  ELSE IF ~Contains(end_part, DOT)
                  THEN IF Len(end_part) = 1 /\ end_part[1] >= 0
                       THEN Parsed(OctetRange(start_ip, start_ip[7], end_part[1]))
                       ELSE ParseError
                  ELSE IF IsAddress(end_part)
                       THEN LET first == ToInt(AddressOf(start_ip))
                                last  == ToInt(AddressOf(end_part))
                            IN  Parsed([i \in 1..(last - first + 1) |-> FromInt(first + i - 1)])
                       ELSE ParseError
         ELSE Parsed(<<>>)
    ELSE IF IsAddress(ip_range) THEN Parsed(<<AddressOf(ip_range)>>) ELSE ParseError

\* _is_in_network(ip, network_range): False when ip_network() raises.
_is_in_network(ip, network_range) ==
    LET network == IpNetwork(network_range)
    IN  network.ok /\ network.lo <= ToInt(ip) /\ ToInt(ip) <= network.hi

(* ------------------------------------------------------------------ *)
(* The network around the scanner, and the scanner's inputs           *)
(* ------------------------------------------------------------------ *)

LanHosts == {<<10, 0, 0, 1 + i>> : i \in 1..MaxHost}

\* The addresses the LAN's name service has a name for.
Named == {<<10, 0, 0, 2>>}

\* "10.0.0.2-3", the last LAN host up to .254 (three ping batches),
\* "10.0.0.0/30",
\* "10.0.0.2", "10.0.0.3-2", "not-an-ip" and "10.0.0.x".
RangeSpecs ==
    { <<10, DOT, 0, DOT, 0, DOT, 2, DASH, 3>>,
      <<10, DOT, 0, DOT, 0, DOT, 1 + MaxHost, DASH, 254>>,
      <<10, DOT, 0, DOT, 0, DOT, 0, SLASH, 30>>,
      <<10, DOT, 0, DOT, 0, DOT, 2>>,
      <<10, DOT, 0, DOT, 0, DOT, 3, DASH, 2>>,
      <<WORD, DASH, WORD, DASH, WORD>>,
      <<10, DOT, 0, DOT, 0, DOT, WORD>> }

COMMON_SERVICES ==
    << [name |-> "HTTP", port |-> 80, protocol |-> "tcp"],
       [name |-> "HTTPS", port |-> 443, protocol |-> "tcp"],
       [name |-> "HTTP Alt", port |-> 8080, protocol |-> "tcp"],
       [name |-> "HTTPS Alt", port |-> 8443, protocol |-> "tcp"] >>

\* services_to_scan of scan_network (no custom services configured).
services_to_scan == SubSeq(COMMON_SERVICES, 1, NumServices)

batch_size == 100

max_ips == 254

max_probe_ips == 50

test_ports == <<22, 80, 443, 445, 3389>>

\* The MAC address the neighbor table holds for a host, "" being <<>>.
MacOf(ip) == <<170, 187, 204, 0, 0, ip[4]>>

\* A name a hostname lookup resolves an address to.
HostName(ip) == <<WORD, ip[4]>>

(* ------------------------------------------------------------------ *)
(* Helpers                                                            *)
(* ------------------------------------------------------------------ *)

Min(a, b) == IF a <= b THEN a ELSE b

Range(s) == {s[i] : i \in DOMAIN s}

\* Every order in which the elements of S can be iterated.
Perms(S) == {f \in [1..Cardinality(S) -> S] : \A a \in S : \E i \in DOMAIN f : f[i] = a}

\* The slice that cuts nothing off.
PrefixWhole(s, n) == s

\* seq[:n]
Prefix(s, n) == SubSeq(s, 1, Min(n, Len(s)))

\* [x for x in seq if x not in S]
Without(s, S) == SelectSeq(s, LAMBDA x : x \notin S)

\* A progress event (message, percentage); the percentage is the exact
\* fraction n / d.
Event(msg, n, d) == [msg |-> msg, n |-> n, d |-> d]

\* Fraction with the division by total forgotten.
FractionUndivided(msg, base, completed, total, span) ==
    Event(msg, base + completed * span, 1)

\* base + (completed / total) * span
Fraction(msg, base, completed, total, span) ==
    Event(msg, base * total + completed * span, total)

(* ------------------------------------------------------------------ *)
(* State                                                              *)
(* ------------------------------------------------------------------ *)

VARIABLES
    network_range,      \* the argument of scan_network
    pc,                 \* where the scanning thread stands
    _stop_scanning,     \* NetworkScanner._stop_scanning
    ip_list,            \* _enhanced_host_discovery: the candidate addresses
    batch_start,        \* the ping loop's batch_start
    futures,            \* ping futures as_completed has not yielded yet
    alive_hosts,        \* addresses found alive, in the order found
    discovered_ips,     \* the same as a set
    arp_table,          \* addresses the neighbor table has a MAC for
    port_futures,       \* the (ip, port) TCP probes, in submission order
    found_in_probe,     \* addresses the TCP probe added
    hosts,              \* the host list: discovery's result
    idx,                \* position of the running for loop over a list
    hostname_futures,   \* hostname futures not yielded yet
    hostname_results,   \* ip -> hostname
    completed,          \* the completed counter of the running loop
    all_scan_tasks,     \* the (ip, service) port scan tasks
    future_to_task,     \* port scan futures not yielded yet (task numbers)
    service_results,    \* ip -> list of open services
    results,            \* the list scan_network returns
    progress,           \* the events given to progress_callback, in order
    posted,             \* what scan_worker hands to the GUI main loop
    stop_log,           \* history: where the scan stood when stop_scan() set the flag
    crashed,            \* history: pc at which an unexpected exception rose
    probers,            \* history: the kinds of probe started
    port_open,          \* history: the tasks whose _check_port returned True
    vendor_cache,       \* NetworkScanner.vendor_cache: normalized MAC -> vendor
    oui_lookups,        \* history: normalized MAC -> OUI lookups made for it
    vendor_returned,    \* history: normalized MAC -> the strings _get_vendor returned
    discovery_threads,  \* NetworkScanner.discovery_threads
    queued,             \* pings submitted to the executor and not started
    running             \* pings a worker thread is executing

disc == <<ip_list, batch_start, futures, alive_hosts, discovered_ips, arp_table,
          port_futures, found_in_probe, hosts>>

scan == <<hostname_futures, hostname_results, completed, all_scan_tasks,
          future_to_task, service_results, results>>

hist == <<stop_log, crashed, probers, port_open>>

vendor == <<vendor_cache, oui_lookups, vendor_returned>>

pool == <<discovery_threads, queued, running>>

VARIABLES
    task_outcome,       \* history: port scan task -> what its probe met
    default_timeout,    \* the process-wide default socket timeout, in ms
    hostname_cache,     \* NetworkScanner.hostname_cache: ip -> hostname
    calls,              \* the _get_hostname calls: position and locals of each
    step_lists,         \* the lists create_diagnostic_steps() returned: step -> status
    steps,              \* NetworkDiagnostics.steps: which of those lists (0: [])
    is_running,         \* NetworkDiagnostics.is_running
    completion_callback,\* the run whose completion callback is registered (0: None)
    diag_threads,       \* the _run_diagnostics_thread threads, one per run
    completions,        \* history: the completion callbacks invoked
    scanning,           \* WiFiScanner.scanning
    scan_threads,       \* the _scan_loop threads started, the last being scan_thread
    joining,            \* the caller of stop_scanning is inside scan_thread.join
    gui_scans,          \* the scans start_scan launched: scanner flag and thread
    in_start_scan,      \* the main loop is inside start_scan's join
    idle_queue,         \* GLib.idle_add: the scans whose results wait for the main loop
    current_results,    \* MainWindow.current_results: the scan they came from (0: none)
    delivered,          \* history: the on_scan_completed calls
    custom_services,    \* ConfigManager.config.custom_services
    config_returned     \* what the last ConfigManager call returned

\* The state of scan_network and of the side studies of the scanner.
core == <<network_range, pc, _stop_scanning, idx, progress, posted, disc, scan, hist,
          vendor, pool>>

portv == <<task_outcome>>

hostv == <<default_timeout, hostname_cache, calls>>

diagv == <<step_lists, steps, is_running, completion_callback, diag_threads, completions>>

wifiv == <<scanning, scan_threads, joining>>

guiv == <<gui_scans, in_start_scan, idle_queue, current_results, delivered>>

confv == <<custom_services, config_returned>>

\* State kept for the parts of the application studied on their own.
apps == <<portv, hostv, diagv, wifiv, guiv, confv>>

\* What the port scan, the _get_hostname calls and the diagnostics leave
\* alone.
besides_portv == <<hostv, diagv, wifiv, guiv, confv>>

besides_hostv == <<core, portv, diagv, wifiv, guiv, confv>>

besides_diagv == <<core, portv, hostv, wifiv, guiv, confv>>

besides_wifiv == <<core, portv, hostv, diagv, guiv, confv>>

besides_guiv == <<core, portv, hostv, diagv, wifiv, confv>>

besides_confv == <<core, portv, hostv, diagv, wifiv, guiv>>

\* socket.getdefaulttimeout() of a fresh process.
None == 0 - 1

\* Nothing of those parts has run.
Unused ==
    /\ task_outcome = <<>>
    /\ default_timeout = None
    /\ hostname_cache = <<>>
    /\ calls = <<>>
    /\ step_lists = <<>>
    /\ steps = 0
    /\ is_running = FALSE
    /\ completion_callback = 0
    /\ diag_threads = <<>>
    /\ completions = <<>>
    /\ scanning = FALSE
    /\ scan_threads = <<>>
    /\ joining = FALSE
    /\ gui_scans = <<>>
    /\ in_start_scan = FALSE
    /\ idle_queue = <<>>
    /\ current_results = 0
    /\ delivered = <<>>
    /\ custom_services = <<>>
    /\ config_returned = "nothing"

\* What scan_network itself never touches at the granularity of its actions.
side == <<vendor, pool, apps>>

vars == <<network_range, pc, _stop_scanning, idx, progress, posted, disc, scan, hist, side>>

\* NetworkScanner.__init__ and the locals of a scan not started yet.
Constructed ==
    /\ pc = "idle"
    /\ _stop_scanning = FALSE
    /\ ip_list = <<>>
    /\ batch_start = 0
    /\ futures = {}
    /\ alive_hosts = <<>>
    /\ discovered_ips = {}
    /\ arp_table = {}
    /\ port_futures = <<>>
    /\ found_in_probe = {}
    /\ hosts = <<>>
    /\ idx = 0
    /\ hostname_futures = {}
    /\ hostname_results = <<>>
    /\ completed = 0
    /\ all_scan_tasks = <<>>
    /\ future_to_task = {}
    /\ service_results = <<>>
    /\ results = <<>>
    /\ progress = <<>>
    /\ posted = "nothing"
    /\ stop_log = {}
    /\ crashed = "no"
    /\ probers = {}
    /\ port_open = {}
    /\ vendor_cache = <<>>
    /\ oui_lookups = <<>>
    /\ vendor_returned = <<>>
    /\ queued = 0
    /\ running = 0
    /\ Unused

Init ==
    /\ network_range \in RangeSpecs
    /\ discovery_threads = 130
    /\ Constructed

(* ------------------------------------------------------------------ *)
(* stop_scan, called from the GUI thread                              *)
(* ------------------------------------------------------------------ *)

DiscoveryPcs ==
    {"ping_loop", "ping_wait", "ping_exit", "arp", "tcp", "tcp_wait", "mac", "mac_loop"}

ScanPcs == {"resolve_wait", "port_wait", "assemble"}

\* The part of scan_network a position belongs to.
Phase(at) ==
    IF at \in DiscoveryPcs THEN "discovery"
    ELSE IF at \in {"returned", "done"} THEN "returned"
    ELSE IF at = "idle" THEN "idle"
    ELSE IF at = "refresh" THEN "entry"
    ELSE "scan"

\* The ping sweep within the discovery.
PingPcs == {"ping_loop", "ping_wait", "ping_exit"}

Stage(at) == IF at \in PingPcs THEN "ping" ELSE Phase(at)

stop_scan ==
    /\ _stop_scanning' = TRUE
    /\ stop_log' = IF _stop_scanning THEN stop_log ELSE stop_log \cup {Phase(pc), Stage(pc)}
    /\ UNCHANGED <<network_range, side, pc, idx, progress, posted, disc, scan,
                   crashed, probers, port_open>>

(* ------------------------------------------------------------------ *)
(* scan_network: entry                                                *)
(* ------------------------------------------------------------------ *)

\* scan_worker calls scan_network, which first re-reads the configuration.
scan_network_called ==
    /\ pc = "idle"
    /\ pc' = "refresh"
    /\ UNCHANGED <<network_range, side, _stop_scanning, idx, progress, posted, disc, scan, hist>>

\* self._stop_scanning = False; results = []
scan_network_reset ==
    /\ pc = "refresh"
    /\ _stop_scanning' = FALSE
    /\ results' = <<>>
    /\ pc' = "step1"
    /\ UNCHANGED <<network_range, side, idx, progress, posted, disc, hist,
                   hostname_futures, hostname_results, completed, all_scan_tasks,
                   future_to_task, service_results>>

(* ------------------------------------------------------------------ *)
(* _enhanced_host_discovery                                           *)
(* ------------------------------------------------------------------ *)

\* ip_list[:254]
Truncate(ips) == IF Len(ips) > max_ips THEN SubSeq(ips, 1, max_ips) ELSE ips

\* Step 1 of scan_network, discover_hosts and the head of the discovery: the
\* range is parsed; a ValueError is caught by the discovery's own handler,
\* which returns [].
discover_hosts ==
    /\ pc = "step1"
    /\ LET parsed == parse_ip_range(network_range)
           head   == progress \o << Event("Scanning network for live hosts...", 5, 1),
                                    Event("Discovering hosts...", 10, 1) >>
       IN  IF parsed.err
           THEN /\ progress' = head
                /\ hosts' = <<>>
                /\ pc' = "discovered"
                /\ UNCHANGED <<ip_list, alive_hosts, discovered_ips, batch_start>>
           ELSE /\ ip_list' = Truncate(parsed.ips)
                /\ progress' = Append(head, Event("Ping scanning", 15, 1))
                /\ alive_hosts' = <<>>
                /\ discovered_ips' = {}
                /\ hosts' = <<>>
                /\ batch_start' = 0
                /\ pc' = "ping_loop"
    /\ UNCHANGED <<network_range, side, _stop_scanning, idx, posted, futures, arp_table,
                   port_futures, found_in_probe, scan, hist>>

\* for batch_start in range(0, len(ip_list), batch_size): the loop ends, or
\* breaks on the stop flag, or submits the pings of the next batch.  The ping
\* of an address no LAN host has returns (ip, False) and its turn of the
\* result loop changes nothing, so only the pings of LAN hosts are followed.
ping_batch ==
    /\ pc = "ping_loop"
    /\ IF batch_start >= Len(ip_list) \/ _stop_scanning
       THEN /\ pc' = "arp"
            /\ UNCHANGED <<futures, probers>>
       ELSE LET batch_ips == SubSeq(ip_list, batch_start + 1,
                                    Min(batch_start + batch_size, Len(ip_list)))
            IN  /\ futures' = Range(batch_ips) \cap LanHosts
                /\ probers' = probers \cup {"ping"}
                /\ pc' = "ping_wait"
    /\ UNCHANGED <<network_range, side, _stop_scanning, idx, progress, posted, ip_list,
                   batch_start, alive_hosts, discovered_ips, arp_table, port_futures,
                   found_in_probe, hosts, scan, stop_log, crashed, port_open>>

\* as_completed yields the ping of ip: an alive address is appended.
ping_result(ip) ==
    /\ pc = "ping_wait"
    /\ ip \in futures
    /\ ~_stop_scanning
    /\ \E is_alive \in BOOLEAN :
          /\ alive_hosts' = IF is_alive THEN Append(alive_hosts, ip) ELSE alive_hosts
          /\ discovered_ips' = IF is_alive THEN discovered_ips \cup {ip} ELSE discovered_ips
    /\ futures' = futures \ {ip}
    /\ UNCHANGED <<network_range, side, pc, _stop_scanning, idx, progress, posted, ip_list,
                   batch_start, arp_table, port_futures, found_in_probe, hosts, scan, hist>>

\* as_completed yields a ping with the stop flag set: break; the executor
\* waits for the pings left and their results are dropped.
ping_break ==
    /\ pc = "ping_wait"
    /\ futures # {}
    /\ _stop_scanning
    /\ futures' = {}
    /\ UNCHANGED <<network_range, side, pc, _stop_scanning, idx, progress, posted, ip_list,
                   batch_start, alive_hosts, discovered_ips, arp_table, port_futures,
                   found_in_probe, hosts, scan, hist>>

\* The batch is over: its progress event, then the next batch.
ping_batch_done ==
    /\ pc = "ping_wait"
    /\ futures = {}
    /\ progress' = Append(progress,
                     Fraction("Ping scan:", 15, Min(batch_start + batch_size, Len(ip_list)),
                              Len(ip_list), 10))
    /\ batch_start' = batch_start + batch_size
    /\ pc' = "ping_loop"
    /\ UNCHANGED <<network_range, side, _stop_scanning, idx, posted, ip_list, futures,
                   alive_hosts, discovered_ips, arp_table, port_futures, found_in_probe,
                   hosts, scan, hist>>

\* ArpAdditions without the test of discovered_ips.
ArpAdditionsUnfiltered(table, discovered, range) ==
    {ip \in table : _is_in_network(ip, range)}

\* The neighbor-table entries Method 2 adds.
ArpAdditions(table, discovered, range) ==
    {ip \in table : ip \notin discovered /\ _is_in_network(ip, range)}

\* Method 2: the neighbor table is read (any set of LAN hosts, in any order)
\* and its entries inside the range are appended.
check_arp ==
    /\ pc = "arp"
    /\ progress' = Append(progress, Event("Checking ARP table...", 26, 1))
    /\ \E table \in SUBSET LanHosts :
          /\ arp_table' = table
          /\ \E order \in Perms(ArpAdditions(table, discovered_ips, network_range)) :
                /\ alive_hosts' = alive_hosts \o order
                /\ discovered_ips' = discovered_ips \cup Range(order)
    /\ probers' = probers \cup {"arp"}
    /\ pc' = "tcp"
    /\ UNCHANGED <<network_range, side, _stop_scanning, idx, posted, ip_list, batch_start,
                   futures, port_futures, found_in_probe, hosts, scan, stop_log,
                   crashed, port_open>>

\* [(ip, port) for ip in probe_ips for port in test_ports]
ProbeTasks(ips) ==
    [k \in 1..(Len(ips) * Len(test_ports)) |->
        <<ips[((k - 1) \div Len(test_ports)) + 1], test_ports[((k - 1) % Len(test_ports)) + 1]>>]

\* The next probe at or after position i whose address a LAN host has.  A
\* probe of any other address returns False and its turn of the result loop
\* changes nothing: the loop's position jumps over it.
NextProbe(probes, i) ==
    IF \E j \in i..Len(probes) : probes[j][1] \in LanHosts
    THEN CHOOSE j \in i..Len(probes) :
            /\ probes[j][1] \in LanHosts
            /\ \A k \in i..(j - 1) : probes[k][1] \notin LanHosts
    ELSE Len(probes) + 1

\* Method 3: TCP probes of the first 50 candidates still silent.
tcp_probe ==
    /\ pc = "tcp"
    /\ progress' = Append(progress, Event("TCP port probe for silent hosts...", 28, 1))
    /\ LET remaining_ips == Without(ip_list, discovered_ips)
           probe_ips     == Prefix(remaining_ips, max_probe_ips)
       IN  IF remaining_ips # <<>>
           THEN /\ port_futures' = ProbeTasks(probe_ips)
                /\ probers' = probers \cup {"tcp"}
                /\ found_in_probe' = {}
                /\ idx' = NextProbe(ProbeTasks(probe_ips), 1)
                /\ pc' = "tcp_wait"
           ELSE /\ pc' = "mac"
                /\ UNCHANGED <<port_futures, probers, found_in_probe, idx>>
    /\ UNCHANGED <<network_range, side, _stop_scanning, posted, ip_list, batch_start, futures,
                   alive_hosts, discovered_ips, arp_table, hosts, scan, stop_log,
                   crashed, port_open>>

\* for future, ip in port_futures: the result of the next probe, in
\* submission order; a probe that answers makes its address alive.
tcp_result ==
    /\ pc = "tcp_wait"
    /\ idx <= Len(port_futures)
    /\ ~_stop_scanning
    /\ LET ip == port_futures[idx][1]
       IN  \E answered \in BOOLEAN :
             IF answered /\ ip \notin discovered_ips /\ ip \notin found_in_probe
             THEN /\ alive_hosts' = Append(alive_hosts, ip)
                  /\ discovered_ips' = discovered_ips \cup {ip}
                  /\ found_in_probe' = found_in_probe \cup {ip}
             ELSE UNCHANGED <<alive_hosts, discovered_ips, found_in_probe>>
    /\ idx' = NextProbe(port_futures, idx + 1)
    /\ UNCHANGED <<network_range, side, pc, _stop_scanning, progress, posted, ip_list,
                   batch_start, futures, arp_table, port_futures, hosts, scan, hist>>

\* The loop over port_futures ends or breaks on the stop flag.
tcp_done ==
    /\ pc = "tcp_wait"
    /\ idx > Len(port_futures) \/ _stop_scanning
    /\ pc' = "mac"
    /\ UNCHANGED <<network_range, side, _stop_scanning, idx, progress, posted, disc, scan, hist>>

\* {"ip": ip, "mac": arp_table.get(ip, "")}; the vendor string is looked up
\* from the MAC alone and is left out.
HostEntry(ip, table) == [ip |-> ip, mac |-> IF ip \in table THEN MacOf(ip) ELSE <<>>]

\* "Getting MAC addresses...": the final loop starts.
mac_start ==
    /\ pc = "mac"
    /\ progress' = Append(progress, Event("Getting MAC addresses...", 32, 1))
    /\ idx' = 1
    /\ pc' = "mac_loop"
    /\ UNCHANGED <<network_range, side, _stop_scanning, posted, disc, scan, hist>>

\* for ip in alive_hosts: one host entry per turn; the loop ends or breaks
\* on the stop flag, and the discovery returns hosts.
mac_step ==
    /\ pc = "mac_loop"
    /\ IF idx <= Len(alive_hosts) /\ ~_stop_scanning
       THEN /\ hosts' = Append(hosts, HostEntry(alive_hosts[idx], arp_table))
            /\ idx' = idx + 1
            /\ UNCHANGED <<pc, progress>>
       ELSE /\ progress' = Append(progress, Event("Found hosts", 35, 1))
            /\ pc' = "discovered"
            /\ UNCHANGED <<hosts, idx>>
    /\ UNCHANGED <<network_range, side, _stop_scanning, posted, ip_list, batch_start, futures,
                   alive_hosts, discovered_ips, arp_table, port_futures, found_in_probe,
                   scan, hist>>

\* except Exception: an unexpected exception anywhere in the discovery is
\* logged and the discovery returns [].
discovery_failed ==
    /\ pc \in DiscoveryPcs
    /\ crashed = "no"
    /\ crashed' = pc
    /\ hosts' = <<>>
    /\ futures' = {}
    /\ pc' = "discovered"
    /\ UNCHANGED <<network_range, side, _stop_scanning, idx, progress, posted, ip_list,
                   batch_start, alive_hosts, discovered_ips, arp_table, port_futures,
                   found_in_probe, scan, stop_log, probers, port_open>>

(* ------------------------------------------------------------------ *)
(* scan_network: hostnames, port scan, assembly                       *)
(* ------------------------------------------------------------------ *)

HostIps(hs) == {hs[i].ip : i \in DOMAIN hs}

\* dict[key] = value
Put(map, key, value) ==
    [k \in DOMAIN map \cup {key} |-> IF k = key THEN value ELSE map[k]]

\* dict.get(key, default)
Get(map, key, default) == IF key \in DOMAIN map THEN map[key] ELSE default

\* The early return taken for no host list at all.
NoHostsNever(hs) == FALSE

\* not hosts
NoHosts(hs) == hs = <<>>

\* if not hosts: "No hosts found" and return; else Step 2 submits one
\* hostname lookup per host.
resolve_hostnames ==
    /\ pc = "discovered"
    /\ IF NoHosts(hosts)
       THEN /\ progress' = Append(progress, Event("No hosts found", 100, 1))
            /\ pc' = "returned"
            /\ UNCHANGED <<hostname_futures, hostname_results, completed, probers>>
       ELSE /\ progress' = Append(progress, Event("Resolving hostnames...", 35, 1))
            /\ hostname_results' = <<>>
            /\ hostname_futures' = HostIps(hosts)
            /\ probers' = probers \cup {"hostname"}
            /\ completed' = 0
            /\ pc' = "resolve_wait"
    /\ UNCHANGED <<network_range, side, _stop_scanning, idx, posted, disc, all_scan_tasks,
                   future_to_task, service_results, results, stop_log, crashed, port_open>>

\* _get_hostname: the resolved name, or the address itself.
_get_hostname(ip) == IF ip \in Named THEN HostName(ip) ELSE ip

\* as_completed yields the lookup of ip.
hostname_result(ip) ==
    /\ pc = "resolve_wait"
    /\ ip \in hostname_futures
    /\ ~_stop_scanning
    /\ hostname_results' = Put(hostname_results, ip, _get_hostname(ip))
    /\ hostname_futures' = hostname_futures \ {ip}
    /\ completed' = completed + 1
    /\ progress' = Append(progress, Fraction("Resolved", 35, completed + 1, Len(hosts), 20))
    /\ UNCHANGED <<network_range, side, pc, _stop_scanning, idx, posted, disc, all_scan_tasks,
                   future_to_task, service_results, results, hist>>

hostname_break ==
    /\ pc = "resolve_wait"
    /\ hostname_futures # {}
    /\ _stop_scanning
    /\ hostname_futures' = {}
    /\ UNCHANGED <<network_range, side, pc, _stop_scanning, idx, progress, posted, disc,
                   hostname_results, completed, all_scan_tasks, future_to_task,
                   service_results, results, hist>>

\* AllScanTasks with the inner loop cut to the first service.
RECURSIVE AllScanTasksFirstService(_, _)
AllScanTasksFirstService(hs, services) ==
    IF hs = <<>> THEN <<>>
    ELSE <<[ip |-> Head(hs).ip, service |-> services[1]]>>
         \o AllScanTasksFirstService(Tail(hs), services)

\* [(host["ip"], service) for host in hosts for service in services]
RECURSIVE AllScanTasks(_, _)
AllScanTasks(hs, services) ==
    IF hs = <<>> THEN <<>>
    ELSE [k \in 1..Len(services) |-> [ip |-> Head(hs).ip, service |-> services[k]]]
         \o AllScanTasks(Tail(hs), services)

\* {host["ip"]: [] for host in hosts}
EmptyServiceResults(hs) == [ip \in HostIps(hs) |-> <<>>]

\* Step 3: every (host, service) task is submitted to the port scan pool.
scan_services ==
    /\ pc = "resolve_wait"
    /\ hostname_futures = {}
    /\ all_scan_tasks' = AllScanTasks(hosts, services_to_scan)
    /\ service_results' = EmptyServiceResults(hosts)
    /\ future_to_task' = DOMAIN AllScanTasks(hosts, services_to_scan)
    /\ probers' = IF AllScanTasks(hosts, services_to_scan) # <<>>
                  THEN probers \cup {"port"} ELSE probers
    /\ progress' = progress \o << Event("Scanning services...", 55, 1),
                                  Event("Starting port scan:", 55, 1) >>
    /\ completed' = 0
    /\ pc' = "port_wait"
    /\ UNCHANGED <<network_range, side, _stop_scanning, idx, posted, disc, hostname_futures,
                   hostname_results, results, stop_log, crashed, port_open>>

\* _check_port: False once the stop flag is set, else what the socket says.
_check_port(stop, connects) == IF stop THEN FALSE ELSE connects

\* RecordService without the test of the result.
RecordServiceUnchecked(sr, ip, service, open) ==
    [sr EXCEPT ![ip] = Append(@, service)]

\* if future.result(): service_results[ip].append(service)
RecordService(sr, ip, service, open) ==
    IF open THEN [sr EXCEPT ![ip] = Append(@, service)] ELSE sr

\* The progress event of the port loop: every 20 completions and at the end.
PortProgress(log, done, total) ==
    IF done % 20 = 0 \/ done = total
    THEN Append(log, Fraction("Scanned", 55, done, total, 30))
    ELSE log

\* as_completed yields port scan task t.
port_result(t) ==
    /\ pc = "port_wait"
    /\ t \in future_to_task
    /\ ~_stop_scanning
    /\ \E connects \in BOOLEAN :
          LET open == _check_port(_stop_scanning, connects)
          IN  /\ service_results' = RecordService(service_results, all_scan_tasks[t].ip,
                                                  all_scan_tasks[t].service, open)
              /\ port_open' = IF open THEN port_open \cup {t} ELSE port_open
    /\ future_to_task' = future_to_task \ {t}
    /\ completed' = completed + 1
    /\ progress' = PortProgress(progress, completed + 1, Len(all_scan_tasks))
    /\ UNCHANGED <<network_range, side, pc, _stop_scanning, idx, posted, disc, hostname_futures,
                   hostname_results, all_scan_tasks, results, stop_log, crashed, probers>>

\* A port loop that waits on instead of breaking.
port_breakNever ==
    /\ pc = "port_wait"
    /\ future_to_task # {}
    /\ _stop_scanning
    /\ UNCHANGED vars

\* if self._stop_scanning: break -- the results not collected are dropped.
port_break ==
    /\ pc = "port_wait"
    /\ future_to_task # {}
    /\ _stop_scanning
    /\ future_to_task' = {}
    /\ UNCHANGED <<network_range, side, pc, _stop_scanning, idx, progress, posted, disc,
                   hostname_futures, hostname_results, completed, all_scan_tasks,
                   service_results, results, hist>>

\* Step 4 starts.
finalize ==
    /\ pc = "port_wait"
    /\ future_to_task = {}
    /\ progress' = Append(progress, Event("Finalizing results...", 85, 1))
    /\ idx' = 1
    /\ pc' = "assemble"
    /\ UNCHANGED <<network_range, side, _stop_scanning, posted, disc, scan, hist>>

\* ScanResult(ip, mac, services, is_alive=True); the hostname shown is a
\* label derived for display and is left out.
ScanResult(host_data, sr) ==
    [ip |-> host_data.ip, mac |-> host_data.mac,
     services |-> Get(sr, host_data.ip, <<>>), is_alive |-> TRUE]

\* AddResult that skips a host without open services.
AddResultWithServices(res, host_data, sr) ==
    IF Get(sr, host_data.ip, <<>>) = <<>> THEN res
    ELSE Append(res, ScanResult(host_data, sr))

\* results.append(scan_result)
AddResult(res, host_data, sr) == Append(res, ScanResult(host_data, sr))

\* for host_data in hosts: one ScanResult per turn; the loop ends or breaks
\* on the stop flag, then "Scan completed" and return results.
assemble ==
    /\ pc = "assemble"
    /\ IF idx <= Len(hosts) /\ ~_stop_scanning
       THEN /\ results' = AddResult(results, hosts[idx], service_results)
            /\ idx' = idx + 1
            /\ UNCHANGED <<pc, progress>>
       ELSE /\ progress' = Append(progress, Event("Scan completed", 100, 1))
            /\ pc' = "returned"
            /\ UNCHANGED <<results, idx>>
    /\ UNCHANGED <<network_range, side, _stop_scanning, posted, disc, hostname_futures,
                   hostname_results, completed, all_scan_tasks, future_to_task,
                   service_results, hist>>

\* except Exception: "Scan failed", and results is returned as it stands.
\* In Step 4 the exception rises in the loop body (_enhance_hostname repeats
\* a hostname lookup that raised before).
scan_failed ==
    /\ pc \in ScanPcs
    /\ pc = "assemble" => idx <= Len(hosts) /\ ~_stop_scanning
    /\ crashed = "no"
    /\ crashed' = pc
    /\ progress' = Append(progress, Event("Scan failed:", 100, 1))
    /\ hostname_futures' = {}
    /\ future_to_task' = {}
    /\ pc' = "returned"
    /\ UNCHANGED <<network_range, side, _stop_scanning, idx, posted, disc, hostname_results,
                   completed, all_scan_tasks, service_results, results, stop_log,
                   probers, port_open>>

\* scan_worker: scan_network returned, its list goes to on_scan_completed.
scan_worker ==
    /\ pc = "returned"
    /\ posted' = "on_scan_completed"
    /\ pc' = "done"
    /\ UNCHANGED <<network_range, side, _stop_scanning, idx, progress, disc, scan, hist>>

Next ==
    \/ stop_scan
    \/ scan_network_called
    \/ scan_network_reset
    \/ discover_hosts
    \/ ping_batch
    \/ \E ip \in futures : ping_result(ip)
    \/ ping_break
    \/ ping_batch_done
    \/ check_arp
    \/ tcp_probe
    \/ tcp_result
    \/ tcp_done
    \/ mac_start
    \/ mac_step
    \/ discovery_failed
    \/ resolve_hostnames
    \/ \E ip \in hostname_futures : hostname_result(ip)
    \/ hostname_break
    \/ scan_services
    \/ \E t \in future_to_task : port_result(t)
    \/ port_break
    \/ finalize
    \/ assemble
    \/ scan_failed
    \/ scan_worker

Spec == Init /\ [][Next]_vars

(* ------------------------------------------------------------------ *)
(* The range expansion on its own, on a densely populated network     *)
(* ------------------------------------------------------------------ *)

Octets == (0..MaxOctet) \cup {254, 255}

\* a.b.c.d/n with up to MaxHostBits host bits, host bits of the address set
\* or not; a.b.c.start-end; single addresses; full dotted ranges; and the
\* malformed "not-an-ip" and "10.0.0.x".
ExpandInputs ==
    {<<10, DOT, 0, DOT, c, DOT, d, SLASH, n>> :
        c \in {0, 1}, d \in {0, 5, 130}, n \in (32 - MaxHostBits)..32}
    \cup {<<10, DOT, 0, DOT, 0, DOT, start, DASH, end>> : start \in Octets, end \in Octets}
    \cup {<<10, DOT, 0, DOT, 0, DOT, d>> : d \in Octets}
    \cup { <<10, DOT, 0, DOT, 0, DOT, 2, DASH, 10, DOT, 0, DOT, 0, DOT, 3>>,
           <<10, DOT, 0, DOT, 0, DOT, 250, DASH, 10, DOT, 0, DOT, 1, DOT, 5>>,
           <<WORD, DASH, WORD, DASH, WORD>>,
           <<10, DOT, 0, DOT, 0, DOT, WORD>> }

\* Addresses the neighbor table of the dense network may hold.
DenseNeighbors == {<<10, 0, 0, 7>>, <<10, 0, 1, 5>>}

ExpandInit ==
    /\ network_range \in ExpandInputs
    /\ discovery_threads = 130
    /\ Constructed

\* ip_list = parse_ip_range(network_range); a ValueError ends the discovery
\* with [].
expand ==
    /\ pc = "idle"
    /\ LET parsed == parse_ip_range(network_range)
       IN  IF parsed.err
           THEN /\ pc' = "expand_failed"
                /\ UNCHANGED ip_list
           ELSE /\ ip_list' = parsed.ips
                /\ pc' = "expanded"
    /\ UNCHANGED <<network_range, side, _stop_scanning, idx, progress, posted, batch_start,
                   futures, alive_hosts, discovered_ips, arp_table, port_futures,
                   found_in_probe, hosts, scan, hist>>

\* if len(ip_list) > 254: ip_list = ip_list[:254]
cap ==
    /\ pc = "expanded"
    /\ ip_list' = Truncate(ip_list)
    /\ pc' = "capped"
    /\ UNCHANGED <<network_range, side, _stop_scanning, idx, progress, posted, batch_start,
                   futures, alive_hosts, discovered_ips, arp_table, port_futures,
                   found_in_probe, hosts, scan, hist>>

\* Method 1 on a network where every candidate answers its ping and the
\* results are taken in submission order.
sweep_dense ==
    /\ pc = "capped"
    /\ alive_hosts' = ip_list
    /\ discovered_ips' = Range(ip_list)
    /\ pc' = "swept"
    /\ UNCHANGED <<network_range, side, _stop_scanning, idx, progress, posted, ip_list,
                   batch_start, futures, arp_table, port_futures, found_in_probe, hosts,
                   scan, hist>>

\* Method 2 on that network.
arp_dense ==
    /\ pc = "swept"
    /\ \E table \in SUBSET DenseNeighbors :
          /\ arp_table' = table
          /\ \E order \in Perms(ArpAdditions(table, discovered_ips, network_range)) :
                /\ alive_hosts' = alive_hosts \o order
                /\ discovered_ips' = discovered_ips \cup Range(order)
    /\ pc' = "arp_done"
    /\ UNCHANGED <<network_range, side, _stop_scanning, idx, progress, posted, ip_list,
                   batch_start, futures, port_futures, found_in_probe, hosts, scan, hist>>

ExpandNext == expand \/ cap \/ sweep_dense \/ arp_dense

ExpandSpec == ExpandInit /\ [][ExpandNext]_vars

(* ------------------------------------------------------------------ *)
(* _get_vendor and its cache                                          *)
(* ------------------------------------------------------------------ *)

\* A MAC string is the sequence of its characters: the digits 0-9 are
\* 0..9, the letters a-f are 10..15, A-F are 20..25, ":" is COLON and "-"
\* is DASH.
COLON == 0 - 5

\* The hex digit d written in lower or upper case.
HexChar(d, upper) == IF d >= 10 /\ upper THEN d + 10 ELSE d

\* The six bytes written as twelve hex digits.
HexDigits(bytes, upper) ==
    [i \in 1..12 |->
        LET b == bytes[(i + 1) \div 2]
        IN  HexChar(IF i % 2 = 1 THEN b \div 16 ELSE b % 16, upper)]

\* The ways a MAC is written: with ":" or "-" between the bytes, or with
\* nothing (sep = 0).
Spelling(bytes, sep, upper) ==
    IF sep = 0 THEN HexDigits(bytes, upper)
    ELSE [i \in 1..17 |-> IF i % 3 = 0 THEN sep ELSE HexDigits(bytes, upper)[i - (i \div 3)]]

\* The MAC of a LAN host and one of another manufacturer.
Macs == {MacOf(<<10, 0, 0, 2>>), <<0, 17, 34, 51, 68, 85>>}

MacStrings == {Spelling(b, sep, upper) : b \in Macs, sep \in {0, COLON, DASH}, upper \in BOOLEAN}

\* str.replace(ch, "") and str.upper()
Replace(str, ch) == SelectSeq(str, LAMBDA c : c # ch)

Upper(str) == [i \in DOMAIN str |-> IF str[i] \in 10..15 THEN str[i] + 10 ELSE str[i]]

\* normalized_mac = mac.replace(":", "").replace("-", "").upper()
Normalize(mac) == Upper(Replace(Replace(mac, COLON), DASH))

\* The cache test answering "not cached" always.
CachedNever(cache, key) == FALSE

\* normalized_mac in self.vendor_cache
Cached(cache, key) == key \in DOMAIN cache

\* What _get_vendor_ieee_oui may return: "Unknown" (no OUI file, no entry,
\* an exception) or the name the OUI database holds.
OuiAnswers == {"Unknown", "Vendor"}

VendorInit ==
    /\ network_range = <<10, DOT, 0, DOT, 0, DOT, 2>>
    /\ discovery_threads = 130
    /\ Constructed

\* _get_vendor(mac): answered from vendor_cache, or looked up and cached
\* (also when the answer is "Unknown" or the lookup raised).
get_vendor(mac) ==
    /\ pc = "idle"
    /\ Len(vendor_returned) < MaxCalls
    /\ LET normalized_mac == Normalize(mac)
       IN  IF Cached(vendor_cache, normalized_mac)
           THEN /\ vendor_returned' = Append(vendor_returned,
                        [mac |-> mac, vendor |-> vendor_cache[normalized_mac]])
                /\ UNCHANGED <<vendor_cache, oui_lookups>>
           ELSE \E vendor_name \in OuiAnswers :
                /\ oui_lookups' = Append(oui_lookups, normalized_mac)
                /\ vendor_cache' = Put(vendor_cache, normalized_mac, vendor_name)
                /\ vendor_returned' = Append(vendor_returned,
                        [mac |-> mac, vendor |-> vendor_name])
    /\ UNCHANGED <<network_range, pc, _stop_scanning, idx, progress, posted, disc, scan,
                   hist, pool, apps>>

VendorNext == \E mac \in MacStrings : get_vendor(mac)

VendorSpec == VendorInit /\ [][VendorNext]_vars

(* ------------------------------------------------------------------ *)
(* The ping sweep at the grain of the executor's worker threads       *)
(* ------------------------------------------------------------------ *)

\* Values of the discovery_threads setting; 130 is the default.
ThreadSettings == {1, 10, 25, 130}

\* "10.0.0.1-254" (batches of 100, 100 and 54) and "10.0.0.0/30".
PoolRanges ==
    { <<10, DOT, 0, DOT, 0, DOT, 1, DASH, 254>>,
      <<10, DOT, 0, DOT, 0, DOT, 0, SLASH, 30>> }

\* The executor's size with the cap of 25 forgotten.
MaxWorkersUncapped(threads, batch_len) == Min(threads, batch_len)

\* max_workers = min(self.discovery_threads, 25);
\* ThreadPoolExecutor(max_workers=min(max_workers, len(batch_ips)))
MaxWorkers(threads, batch_len) == Min(Min(threads, 25), batch_len)

\* len(ip_list[batch_start : batch_start + batch_size])
BatchLen(ips, start) == Min(start + batch_size, Len(ips)) - start

PoolInit ==
    /\ network_range \in PoolRanges
    /\ discovery_threads \in ThreadSettings
    /\ Constructed

\* The head of the discovery, up to the ping loop.
sweep_start ==
    /\ pc = "idle"
    /\ ip_list' = Truncate(parse_ip_range(network_range).ips)
    /\ batch_start' = 0
    /\ pc' = "ping_loop"
    /\ UNCHANGED <<network_range, vendor, apps, discovery_threads, queued, running,
                   _stop_scanning, idx, progress, posted, futures, alive_hosts,
                   discovered_ips, arp_table, port_futures, found_in_probe, hosts,
                   scan, hist>>

\* The batch loop ends, or breaks on the stop flag, or opens an executor and
\* submits one ping per address of the next batch.
submit_batch ==
    /\ pc = "ping_loop"
    /\ IF batch_start >= Len(ip_list) \/ _stop_scanning
       THEN /\ pc' = "arp"
            /\ UNCHANGED queued
       ELSE /\ queued' = BatchLen(ip_list, batch_start)
            /\ pc' = "ping_wait"
    /\ UNCHANGED <<network_range, vendor, apps, discovery_threads, running, _stop_scanning,
                   idx, progress, posted, disc, scan, hist>>

\* A worker thread of the executor takes a ping from the queue.
worker_start ==
    /\ pc \in {"ping_wait", "ping_exit"}
    /\ queued > 0
    /\ running < MaxWorkers(discovery_threads, BatchLen(ip_list, batch_start))
    /\ queued' = queued - 1
    /\ running' = running + 1
    /\ UNCHANGED <<network_range, vendor, apps, discovery_threads, pc, _stop_scanning, idx,
                   progress, posted, disc, scan, hist>>

\* _ping_host returns in a worker thread.
worker_finish ==
    /\ pc \in {"ping_wait", "ping_exit"}
    /\ running > 0
    /\ running' = running - 1
    /\ UNCHANGED <<network_range, vendor, apps, discovery_threads, queued, pc, _stop_scanning,
                   idx, progress, posted, disc, scan, hist>>

\* The loop over as_completed ends with the last result, or breaks when a
\* result is yielded with the stop flag set.
results_loop_left ==
    /\ pc = "ping_wait"
    /\ \/ queued = 0 /\ running = 0
       \/ _stop_scanning /\ queued + running < BatchLen(ip_list, batch_start)
    /\ pc' = "ping_exit"
    /\ UNCHANGED <<network_range, side, _stop_scanning, idx, progress, posted, disc,
                   scan, hist>>

\* The with block is left: the executor's shutdown waits for every ping
\* submitted; then the batch's progress event and the next turn.
executor_exit ==
    /\ pc = "ping_exit"
    /\ queued = 0 /\ running = 0
    /\ progress' = Append(progress,
                     Fraction("Ping scan:", 15, Min(batch_start + batch_size, Len(ip_list)),
                              Len(ip_list), 10))
    /\ batch_start' = batch_start + batch_size
    /\ pc' = "ping_loop"
    /\ UNCHANGED <<network_range, side, _stop_scanning, idx, posted, ip_list, futures,
                   alive_hosts, discovered_ips, arp_table, port_futures, found_in_probe,
                   hosts, scan, hist>>

PoolNext ==
    \/ sweep_start
    \/ submit_batch
    \/ worker_start
    \/ worker_finish
    \/ results_loop_left
    \/ executor_exit
    \/ pc \in PingPcs /\ stop_scan

PoolSpec == PoolInit /\ [][PoolNext]_vars

(* ------------------------------------------------------------------ *)
(* The port scan at the grain of what each probe meets                *)
(* ------------------------------------------------------------------ *)

\* config.custom_services holding one user-defined UDP service.
CustomUdp == << [name |-> "Custom", port |-> 9, protocol |-> "udp"] >>

\* ConfigManager.get_all_services(): the built-in services, then the custom
\* ones (the built-in list is cut to its first entry).
get_all_services == SubSeq(COMMON_SERVICES, 1, 1) \o CustomUdp

\* What a probe can meet: an answer (the connection is accepted, a datagram
\* comes back), a refusal, silence until the timeout, an unreachable
\* network, or an exception raised by the socket calls.
Outcomes == {"answered", "refused", "timeout", "unreachable", "raised"}

\* _check_port_socket that takes everything but an exception for open.
_check_port_socketUnlessRaised(protocol, outcome) == outcome # "raised"

\* _check_port_socket: tcp is open iff connect_ex returned 0; udp is open on
\* a reply and on a timeout of recvfrom, and not open when sendto or
\* recvfrom raised; every exception is caught and gives False.
_check_port_socket(protocol, outcome) ==
    IF protocol = "tcp" THEN outcome = "answered"
    ELSE IF protocol = "udp" THEN outcome \in {"answered", "timeout"}
    ELSE FALSE

\* Host lists a discovery on the LAN hands to the port scan: one or two
\* hosts, in either order.
PortHostLists ==
    {<<HostEntry(a, LanHosts)>> : a \in LanHosts}
    \cup {<<HostEntry(ab[1], LanHosts), HostEntry(ab[2], LanHosts)>> :
             ab \in {cd \in LanHosts \X LanHosts : cd[1] # cd[2]}}

PortInit ==
    /\ network_range = <<10, DOT, 0, DOT, 0, DOT, 2, DASH, 3>>
    /\ discovery_threads = 130
    /\ Constructed

\* Steps 1 and 2 of scan_network in one step: the flag is reset, the
\* discovery returns a host list and every hostname lookup is collected.
hosts_resolved ==
    /\ pc = "idle"
    /\ _stop_scanning' = FALSE
    /\ \E hs \in PortHostLists :
          /\ hosts' = hs
          /\ hostname_results' = [ip \in HostIps(hs) |-> _get_hostname(ip)]
    /\ hostname_futures' = {}
    /\ pc' = "resolve_wait"
    /\ UNCHANGED <<network_range, side, idx, progress, posted, ip_list, batch_start,
                   futures, alive_hosts, discovered_ips, arp_table, port_futures,
                   found_in_probe, completed, all_scan_tasks, future_to_task,
                   service_results, results, hist>>

\* Step 3 with the configuration's services: every (host, service) task is
\* submitted to the port scan pool.
scan_all_services ==
    /\ pc = "resolve_wait"
    /\ hostname_futures = {}
    /\ all_scan_tasks' = AllScanTasks(hosts, get_all_services)
    /\ service_results' = EmptyServiceResults(hosts)
    /\ future_to_task' = DOMAIN AllScanTasks(hosts, get_all_services)
    /\ probers' = probers \cup {"port"}
    /\ task_outcome' = <<>>
    /\ progress' = progress \o << Event("Scanning services...", 55, 1),
                                  Event("Starting port scan:", 55, 1) >>
    /\ completed' = 0
    /\ pc' = "port_wait"
    /\ UNCHANGED <<network_range, vendor, pool, besides_portv, _stop_scanning, idx, posted,
                   disc, hostname_futures, hostname_results, results, stop_log, crashed,
                   port_open>>

\* as_completed yields port scan task t, whose probe met outcome: the
\* result of _check_port is recorded; an exception future.result() would
\* raise is passed over.
port_probe(t, outcome) ==
    /\ pc = "port_wait"
    /\ t \in future_to_task
    /\ ~_stop_scanning
    /\ LET open == _check_port(_stop_scanning,
                      _check_port_socket(all_scan_tasks[t].service.protocol, outcome))
       IN  /\ service_results' = RecordService(service_results, all_scan_tasks[t].ip,
                                               all_scan_tasks[t].service, open)
           /\ port_open' = IF open THEN port_open \cup {t} ELSE port_open
    /\ task_outcome' = Put(task_outcome, t, outcome)
    /\ future_to_task' = future_to_task \ {t}
    /\ completed' = completed + 1
    /\ progress' = PortProgress(progress, completed + 1, Len(all_scan_tasks))
    /\ UNCHANGED <<network_range, vendor, pool, besides_portv, pc, _stop_scanning, idx,
                   posted, disc, hostname_futures, hostname_results, all_scan_tasks, results,
                   stop_log, crashed, probers>>

PortNext ==
    \/ hosts_resolved
    \/ scan_all_services
    \/ \E t \in future_to_task, outcome \in Outcomes : port_probe(t, outcome)
    \/ pc = "port_wait" /\ stop_scan
    \/ port_break
    \/ finalize
    \/ assemble
    \/ scan_worker

PortSpec == PortInit /\ [][PortNext]_vars

(* ------------------------------------------------------------------ *)
(* _get_hostname in the worker threads of the hostname executor       *)
(* ------------------------------------------------------------------ *)

\* How many _get_hostname calls are made.
NumLookups == 3

\* self.hostname_timeout in ms.
hostname_timeout == 500

HostnameInit ==
    /\ network_range = <<10, DOT, 0, DOT, 0, DOT, 2, DASH, 3>>
    /\ discovery_threads = 130
    /\ Constructed

\* The call a worker thread starts next.
NextCall == Len(calls) + 1

\* _get_hostname(ip) is entered: a cached name is returned at once.
hostname_called(ip) ==
    /\ NextCall <= NumLookups
    /\ calls' = Append(calls,
                   IF ip \in DOMAIN hostname_cache
                   THEN [at |-> "done", ip |-> ip, old_timeout |-> None,
                         hostname |-> hostname_cache[ip]]
                   ELSE [at |-> "avahi", ip |-> ip, old_timeout |-> None, hostname |-> ip])
    /\ UNCHANGED <<besides_hostv, default_timeout, hostname_cache>>

\* Method 1: avahi resolves the address, which is cached and returned, or
\* avahi is missing, fails or has no name for it.
avahi_lookup(c) ==
    /\ calls[c].at = "avahi"
    /\ \/ /\ calls[c].ip \in Named
          /\ hostname_cache' = Put(hostname_cache, calls[c].ip, HostName(calls[c].ip))
          /\ calls' = [calls EXCEPT ![c].at = "done", ![c].hostname = HostName(calls[c].ip)]
       \/ /\ calls' = [calls EXCEPT ![c].at = "dns"]
          /\ UNCHANGED hostname_cache
    /\ UNCHANGED <<besides_hostv, default_timeout>>

\* old_timeout = socket.getdefaulttimeout()
save_timeout(c) ==
    /\ calls[c].at = "dns"
    /\ calls' = [calls EXCEPT ![c].at = "saved", ![c].old_timeout = default_timeout]
    /\ UNCHANGED <<besides_hostv, default_timeout, hostname_cache>>

\* socket.setdefaulttimeout(self.hostname_timeout)
set_timeout(c) ==
    /\ calls[c].at = "saved"
    /\ default_timeout' = hostname_timeout
    /\ calls' = [calls EXCEPT ![c].at = "set"]
    /\ UNCHANGED <<besides_hostv, hostname_cache>>

\* socket.gethostbyaddr(ip): a name, which is cached, or herror.
reverse_lookup(c) ==
    /\ calls[c].at = "set"
    /\ IF _get_hostname(calls[c].ip) # calls[c].ip
       THEN /\ hostname_cache' = Put(hostname_cache, calls[c].ip, _get_hostname(calls[c].ip))
            /\ calls' = [calls EXCEPT ![c].at = "finally_return",
                                      ![c].hostname = _get_hostname(calls[c].ip)]
       ELSE /\ calls' = [calls EXCEPT ![c].at = "finally"]
            /\ UNCHANGED hostname_cache
    /\ UNCHANGED <<besides_hostv, default_timeout>>

\* finally: socket.setdefaulttimeout(old_timeout); then the return of the
\* resolved name, or the address is cached and returned.
restore_timeout(c) ==
    /\ calls[c].at \in {"finally", "finally_return"}
    /\ default_timeout' = calls[c].old_timeout
    /\ hostname_cache' = IF calls[c].at = "finally"
                         THEN Put(hostname_cache, calls[c].ip, calls[c].hostname)
                         ELSE hostname_cache
    /\ calls' = [calls EXCEPT ![c].at = "done"]
    /\ UNCHANGED besides_hostv

HostnameNext ==
    \/ \E ip \in LanHosts : hostname_called(ip)
    \/ \E c \in DOMAIN calls :
          \/ avahi_lookup(c)
          \/ save_timeout(c)
          \/ set_timeout(c)
          \/ reverse_lookup(c)
          \/ restore_timeout(c)

HostnameSpec == HostnameInit /\ [][HostnameNext]_vars

(* ------------------------------------------------------------------ *)
(* scan_network under fair scheduling                                 *)
(* ------------------------------------------------------------------ *)

\* "10.0.0.2" and "10.0.0.x".
FairRanges ==
    { <<10, DOT, 0, DOT, 0, DOT, 2>>,
      <<10, DOT, 0, DOT, 0, DOT, WORD>> }

FairInit ==
    /\ network_range \in FairRanges
    /\ discovery_threads = 130
    /\ Constructed

\* A step of the scanning thread other than an exception: every probe
\* submitted returns, so as_completed yields and the executors' shutdowns
\* complete.
ScanStep ==
    \/ scan_network_called
    \/ scan_network_reset
    \/ discover_hosts
    \/ ping_batch
    \/ \E ip \in futures : ping_result(ip)
    \/ ping_break
    \/ ping_batch_done
    \/ check_arp
    \/ tcp_probe
    \/ tcp_result
    \/ tcp_done
    \/ mac_start
    \/ mac_step
    \/ resolve_hostnames
    \/ \E ip \in hostname_futures : hostname_result(ip)
    \/ hostname_break
    \/ scan_services
    \/ \E t \in future_to_task : port_result(t)
    \/ port_break
    \/ finalize
    \/ assemble
    \/ scan_worker

FairNext == stop_scan \/ discovery_failed \/ scan_failed \/ ScanStep

\* The scanning thread is scheduled as long as it can take a step.
FairSpec == FairInit /\ [][FairNext]_vars /\ WF_vars(ScanStep)

(* ------------------------------------------------------------------ *)
(* NetworkDiagnostics: run_diagnostics and its thread                 *)
(* ------------------------------------------------------------------ *)

\* How many of the connectivity tests (steps 5 to 10 in the code) are run.
NumConnectivity == 2

\* The run_diagnostics calls made on the instance.
RunIds == {1, 2}

basic_group == <<0, 1, 2>>

config_group == <<3, 4>>

connectivity_group == [k \in 1..NumConnectivity |-> 4 + k]

StepIndices == 0..(4 + NumConnectivity)

\* The groups in the order _run_diagnostics_thread runs them.
Groups == <<basic_group, config_group, connectivity_group>>

\* The group runs without an executor.
SequentialAlways(g) == TRUE

\* parallel=False for the basic group; the else branch of
\* "if parallel and len(step_indices) > 1".
Sequential(g) == g = 1 \/ Len(Groups[g]) <= 1

\* The tests that fail on some machines: the link status and the default
\* route.
FailingSteps == {2, 4}

\* What the test of a step can return.
TestResults(step) == IF step \in FailingSteps THEN BOOLEAN ELSE {TRUE}

\* create_diagnostic_steps(): every step PENDING.
create_diagnostic_steps == [i \in StepIndices |-> "pending"]

DiagInit ==
    /\ network_range = <<10, DOT, 0, DOT, 0, DOT, 2, DASH, 3>>
    /\ discovery_threads = 130
    /\ Constructed

\* run_diagnostics: the callbacks and a fresh step list are stored,
\* is_running is set and the thread is started.
run_diagnostics ==
    /\ Len(diag_threads) + 1 \in RunIds
    /\ completion_callback' = Len(diag_threads) + 1
    /\ step_lists' = Append(step_lists, create_diagnostic_steps)
    /\ steps' = Len(step_lists) + 1
    /\ is_running' = TRUE
    /\ diag_threads' = Append(diag_threads,
                          [at |-> "group", group |-> 1, i |-> 1,
                           queued |-> {}, executing |-> <<>>])
    /\ UNCHANGED <<besides_diagv, completions>>

\* The thread record after _run_diagnostic_group returned.
GroupLeft(t) ==
    IF t.group < Len(Groups)
    THEN [t EXCEPT !.at = "group", !.group = t.group + 1, !.i = 1]
    ELSE [t EXCEPT !.at = "finally"]

\* _run_diagnostic_group is entered: "if not self.is_running: return", then
\* the parallel or the sequential branch.
group_entered(r) ==
    /\ diag_threads[r].at = "group"
    /\ diag_threads' =
          [diag_threads EXCEPT ![r] =
              IF ~is_running THEN GroupLeft(@)
              ELSE IF Sequential(@.group) THEN [@ EXCEPT !.at = "for"]
              ELSE [@ EXCEPT !.at = "submit"]]
    /\ UNCHANGED <<besides_diagv, step_lists, steps, is_running, completion_callback,
                   completions>>

\* _execute_diagnostic_step up to the test: step = self.steps[step_index],
\* status RUNNING.
Started(t, step) ==
    [t EXCEPT !.executing = Put(@, step, steps), !.queued = @ \ {step}]

\* A turn of the sequential loop: it ends, or breaks when is_running is
\* False, or _execute_diagnostic_step is entered.
for_step(r) ==
    /\ diag_threads[r].at = "for"
    /\ LET t == diag_threads[r]
       IN  IF t.i > Len(Groups[t.group]) \/ ~is_running
           THEN /\ diag_threads' = [diag_threads EXCEPT ![r] = GroupLeft(t)]
                /\ UNCHANGED step_lists
           ELSE /\ diag_threads' = [diag_threads EXCEPT
                                      ![r] = [Started(t, Groups[t.group][t.i])
                                                 EXCEPT !.at = "execute"]]
                /\ step_lists' = [step_lists EXCEPT
                                    ![steps][Groups[t.group][t.i]] = "running"]
    /\ UNCHANGED <<besides_diagv, steps, is_running, completion_callback, completions>>

\* A turn of the loop that submits the group's steps to the executor.
submit_step(r) ==
    /\ diag_threads[r].at = "submit"
    /\ LET t == diag_threads[r]
       IN  diag_threads' =
              [diag_threads EXCEPT ![r] =
                  IF t.i > Len(Groups[t.group]) \/ ~is_running
                  THEN [t EXCEPT !.at = "wait"]
                  ELSE [t EXCEPT !.queued = @ \cup {Groups[t.group][t.i]},
                                 !.i = @ + 1]]
    /\ UNCHANGED <<besides_diagv, step_lists, steps, is_running, completion_callback,
                   completions>>

\* A worker thread of the executor enters _execute_diagnostic_step.
step_started(r, step) ==
    /\ step \in diag_threads[r].queued
    /\ diag_threads' = [diag_threads EXCEPT ![r] = Started(@, step)]
    /\ step_lists' = [step_lists EXCEPT ![steps][step] = "running"]
    /\ UNCHANGED <<besides_diagv, steps, is_running, completion_callback, completions>>

\* The test of a step returns: PASSED or FAILED is written to the step
\* object taken when the step started.
step_finished(r, step, success) ==
    /\ step \in DOMAIN diag_threads[r].executing
    /\ LET t == diag_threads[r]
           rest == [s \in DOMAIN t.executing \ {step} |-> t.executing[s]]
       IN  /\ step_lists' = [step_lists EXCEPT ![t.executing[step]][step] =
                                IF success THEN "passed" ELSE "failed"]
           /\ diag_threads' =
                 [diag_threads EXCEPT ![r] =
                     IF t.at = "execute"
                     THEN [t EXCEPT !.executing = rest, !.at = "for", !.i = @ + 1]
                     ELSE [t EXCEPT !.executing = rest]]
    /\ UNCHANGED <<besides_diagv, steps, is_running, completion_callback, completions>>

\* An executor whose with block is left at once.
ExecutorIdleAlways(t) == TRUE

\* The with block's exit: the executor's shutdown waits for every step
\* submitted.
ExecutorIdle(t) == t.queued = {} /\ DOMAIN t.executing = {}

\* The loop over as_completed is over and the with block is left.
group_done(r) ==
    /\ diag_threads[r].at = "wait"
    /\ ExecutorIdle(diag_threads[r])
    /\ diag_threads' = [diag_threads EXCEPT ![r] = GroupLeft(@)]
    /\ UNCHANGED <<besides_diagv, step_lists, steps, is_running, completion_callback,
                   completions>>

\* finally: self.is_running = False
diag_finally(r) ==
    /\ diag_threads[r].at = "finally"
    /\ is_running' = FALSE
    /\ diag_threads' = [diag_threads EXCEPT ![r].at = "callback"]
    /\ UNCHANGED <<besides_diagv, step_lists, steps, completion_callback, completions>>

\* self.completion_callback(self.steps)
diag_completed(r) ==
    /\ diag_threads[r].at = "callback"
    /\ completions' = Append(completions,
                         [callback |-> completion_callback, thread |-> r,
                          is_running |-> is_running, statuses |-> step_lists[steps]])
    /\ diag_threads' = [diag_threads EXCEPT ![r].at = "done"]
    /\ UNCHANGED <<besides_diagv, step_lists, steps, is_running, completion_callback>>

DiagNext ==
    \/ run_diagnostics
    \/ \E r \in DOMAIN diag_threads :
          \/ group_entered(r)
          \/ for_step(r)
          \/ submit_step(r)
          \/ \E step \in StepIndices : step_started(r, step)
          \/ \E step \in StepIndices :
                \E success \in TestResults(step) : step_finished(r, step, success)
          \/ group_done(r)
          \/ diag_finally(r)
          \/ diag_completed(r)

DiagSpec == DiagInit /\ [][DiagNext]_vars

(* ------------------------------------------------------------------ *)
(* WiFiScanner: start_scanning, stop_scanning and _scan_loop          *)
(* ------------------------------------------------------------------ *)

\* How many _scan_loop threads are started at most.
MaxScanThreads == 3

\* Sleeps of 0.1 s between two scans (scan_interval * 10 in the code).
WaitTicks == 2

WifiInit ==
    /\ network_range = <<10, DOT, 0, DOT, 0, DOT, 2, DASH, 3>>
    /\ discovery_threads = 130
    /\ Constructed

\* threading.Thread.is_alive()
Alive(t) == t.at # "ended"

\* start_scanning: nothing when scanning is set; else the flag is set and a
\* new _scan_loop thread becomes scan_thread.
start_scanning ==
    /\ ~joining
    /\ IF scanning
       THEN UNCHANGED <<scanning, scan_threads>>
       ELSE /\ Len(scan_threads) < MaxScanThreads
            /\ scanning' = TRUE
            /\ scan_threads' = Append(scan_threads, [at |-> "while", tick |-> 0])
    /\ UNCHANGED <<besides_wifiv, joining>>

\* stop_scanning: the flag is cleared, and scan_thread is joined when it is
\* alive.
stop_scanning ==
    /\ ~joining
    /\ scanning' = FALSE
    /\ joining' = (scan_threads # <<>> /\ Alive(scan_threads[Len(scan_threads)]))
    /\ UNCHANGED <<besides_wifiv, scan_threads>>

\* A join that returns only when the thread has ended.
JoinReturnsWhenEnded(t) == ~Alive(t)

\* join(timeout=2) returns: the thread has ended, or the two seconds have
\* passed with the thread inside scan_networks(), whose nmcli calls may
\* take 10 s each.
JoinReturns(t) == ~Alive(t) \/ t.at = "scan"

join_returned ==
    /\ joining
    /\ JoinReturns(scan_threads[Len(scan_threads)])
    /\ joining' = FALSE
    /\ UNCHANGED <<besides_wifiv, scanning, scan_threads>>

\* while self.scanning
loop_tested(t) ==
    /\ scan_threads[t].at = "while"
    /\ scan_threads' = [scan_threads EXCEPT ![t].at = IF scanning THEN "scan" ELSE "ended"]
    /\ UNCHANGED <<besides_wifiv, scanning, joining>>

\* The body's try block: scan_networks(), the history update, the
\* callbacks; an exception is logged.
scan_finished(t) ==
    /\ scan_threads[t].at = "scan"
    /\ scan_threads' = [scan_threads EXCEPT ![t].at = "wait", ![t].tick = 0]
    /\ UNCHANGED <<besides_wifiv, scanning, joining>>

\* A turn of the wait loop: it ends, or breaks when scanning is cleared, or
\* sleeps 0.1 s.
wait_tick(t) ==
    /\ scan_threads[t].at = "wait"
    /\ scan_threads' =
          IF scan_threads[t].tick >= WaitTicks \/ ~scanning
          THEN [scan_threads EXCEPT ![t].at = "while", ![t].tick = 0]
          ELSE [scan_threads EXCEPT ![t].tick = @ + 1]
    /\ UNCHANGED <<besides_wifiv, scanning, joining>>

WifiNext ==
    \/ start_scanning
    \/ stop_scanning
    \/ join_returned
    \/ \E t \in DOMAIN scan_threads :
          \/ loop_tested(t)
          \/ scan_finished(t)
          \/ wait_tick(t)

WifiSpec == WifiInit /\ [][WifiNext]_vars

(* ------------------------------------------------------------------ *)
(* MainWindow: start_scan, scan_worker and on_scan_completed          *)
(* ------------------------------------------------------------------ *)

\* How many scans the user starts at most.
MaxScans == 3

GuiInit ==
    /\ network_range = <<10, DOT, 0, DOT, 0, DOT, 2, DASH, 3>>
    /\ discovery_threads = 130
    /\ Constructed

\* start_scan up to the join: the previous scanner is told to stop and its
\* thread, when alive, is joined.
start_scan ==
    /\ ~in_start_scan
    /\ Len(gui_scans) < MaxScans
    /\ gui_scans' = IF gui_scans = <<>> THEN gui_scans
                    ELSE [gui_scans EXCEPT ![Len(gui_scans)].stopped = TRUE]
    /\ in_start_scan' = TRUE
    /\ UNCHANGED <<besides_guiv, idle_queue, current_results, delivered>>

\* join(timeout=2.0) is over, or was not needed: the previous thread has
\* ended, or two seconds have passed with it still inside scan_network.
\* A new scanner and a new scan_worker thread are made.
start_scan_launched ==
    /\ in_start_scan
    /\ gui_scans' = Append(gui_scans, [stopped |-> FALSE, alive |-> TRUE])
    /\ in_start_scan' = FALSE
    /\ UNCHANGED <<besides_guiv, idle_queue, current_results, delivered>>

\* scan_worker of scan k: scan_network returned its list, which is posted
\* to the main loop with GLib.idle_add(self.on_scan_completed, results).
worker_returned(k) ==
    /\ gui_scans[k].alive
    /\ gui_scans' = [gui_scans EXCEPT ![k].alive = FALSE]
    /\ idle_queue' = Append(idle_queue, k)
    /\ UNCHANGED <<besides_guiv, in_start_scan, current_results, delivered>>

\* The main loop, when not inside start_scan, runs the next idle callback:
\* on_scan_completed(results) stores and displays the results.
on_scan_completed ==
    /\ ~in_start_scan
    /\ idle_queue # <<>>
    /\ current_results' = Head(idle_queue)
    /\ delivered' = Append(delivered,
                       [results |-> Head(idle_queue), started |-> Len(gui_scans)])
    /\ idle_queue' = Tail(idle_queue)
    /\ UNCHANGED <<besides_guiv, gui_scans, in_start_scan>>

GuiNext ==
    \/ start_scan
    \/ start_scan_launched
    \/ \E k \in DOMAIN gui_scans : worker_returned(k)
    \/ on_scan_completed

GuiSpec == GuiInit /\ [][GuiNext]_vars

(* ------------------------------------------------------------------ *)
(* ConfigManager: the custom services                                 *)
(* ------------------------------------------------------------------ *)

\* How many custom services are kept at most.
MaxCustom == 3

\* The (port, protocol) pairs the calls are made with; 80/tcp is built in.
ServicePairs == [port : {80, 9000}, protocol : {"tcp", "udp"}]

\* The custom_services lists of the files imported.
ImportFiles ==
    { <<>>,
      << [port |-> 80, protocol |-> "tcp"], [port |-> 9000, protocol |-> "tcp"] >>,
      << [port |-> 9000, protocol |-> "udp"], [port |-> 9000, protocol |-> "udp"] >> }

ConfigInit ==
    /\ network_range = <<10, DOT, 0, DOT, 0, DOT, 2, DASH, 3>>
    /\ discovery_threads = 130
    /\ Constructed

\* The positions of list holding the pair of service.
Matches(list, service) ==
    {i \in DOMAIN list : list[i].port = service.port /\ list[i].protocol = service.protocol}

\* The first such position (the for loops return at the first match).
FirstMatch(list, service) ==
    CHOOSE i \in Matches(list, service) : \A j \in Matches(list, service) : i <= j

\* add_custom_service on a list: (list after, value returned).
Added(list, service) ==
    IF Matches(list, service) # {}
    THEN [list |-> list, ok |-> FALSE]
    ELSE [list |-> Append(list, service), ok |-> TRUE]

add_custom_service(service) ==
    /\ Len(custom_services) < MaxCustom
    /\ custom_services' = Added(custom_services, service).list
    /\ config_returned' = IF Added(custom_services, service).ok THEN "True" ELSE "False"
    /\ UNCHANGED besides_confv

\* remove_custom_service: the first entry with the pair is deleted.
remove_custom_service(service) ==
    /\ IF Matches(custom_services, service) # {}
       THEN /\ custom_services' =
                  LET i == FirstMatch(custom_services, service)
                  IN  SubSeq(custom_services, 1, i - 1)
                      \o SubSeq(custom_services, i + 1, Len(custom_services))
            /\ config_returned' = "True"
       ELSE /\ config_returned' = "False"
            /\ UNCHANGED custom_services
    /\ UNCHANGED besides_confv

\* update_custom_service on a list: the first entry with the old pair is
\* replaced by the new service.
Updated(list, old, new_service) ==
    IF Matches(list, old) = {} THEN list
    ELSE [list EXCEPT ![FirstMatch(list, old)] = new_service]

update_custom_service(old, new_service) ==
    /\ custom_services' = Updated(custom_services, old, new_service)
    /\ config_returned' = IF Matches(custom_services, old) # {} THEN "True" ELSE "False"
    /\ UNCHANGED besides_confv

\* is_port_in_use(port, protocol): a built-in or a custom service has the
\* pair.
is_port_in_use(list, service) ==
    \/ \E k \in DOMAIN COMMON_SERVICES :
          /\ COMMON_SERVICES[k].port = service.port
          /\ COMMON_SERVICES[k].protocol = service.protocol
    \/ Matches(list, service) # {}

\* The loop of import_custom_services over the file's entries.
RECURSIVE Imported(_, _)
Imported(list, data) ==
    IF data = <<>> THEN list
    ELSE Imported(IF is_port_in_use(list, Head(data)) THEN list
                  ELSE Added(list, Head(data)).list,
                  Tail(data))

import_custom_services(data, replace) ==
    /\ Len(IF replace THEN <<>> ELSE custom_services) + Len(data) <= MaxCustom
    /\ custom_services' = Imported(IF replace THEN <<>> ELSE custom_services, data)
    /\ config_returned' = "True"
    /\ UNCHANGED besides_confv

reset_custom_services ==
    /\ custom_services' = <<>>
    /\ config_returned' = "None"
    /\ UNCHANGED besides_confv

ConfigNext ==
    \/ \E service \in ServicePairs : add_custom_service(service)
    \/ \E service \in ServicePairs : remove_custom_service(service)
    \/ \E old \in ServicePairs, new_service \in ServicePairs :
          update_custom_service(old, new_service)
    \/ \E data \in ImportFiles, replace \in BOOLEAN : import_custom_services(data, replace)
    \/ reset_custom_services

ConfigSpec == ConfigInit /\ [][ConfigNext]_vars

(* ------------------------------------------------------------------ *)
(* Properties                                                         *)
(* ------------------------------------------------------------------ *)

\* scan_network has returned.
Returned == pc \in {"returned", "done"}

\* A stop_scan() call set the flag while the scan ran, after its reset.
Cancelled == stop_log \cap {"discovery", "scan"} # {}

Crashed == crashed # "no"

ResultIps == {results[i].ip : i \in DOMAIN results}

Last(s) == s[Len(s)]

\* The range grammars of the range parser: CIDR, trailing-octet range, full
\* dotted range, single address.
WellFormed(toks) ==
    \/ IsAddress(toks)
    \/ /\ Len(toks) = 9
       /\ IsAddress(SubSeq(toks, 1, 7))
       /\ \/ toks[8] = SLASH /\ toks[9] \in 0..32
          \/ toks[8] = DASH /\ toks[9] \in 0..255
    \/ /\ Len(toks) = 15
       /\ IsAddress(SubSeq(toks, 1, 7))
       /\ toks[8] = DASH
       /\ IsAddress(SubSeq(toks, 9, 15))

\* p <= q for progress events.
Leq(p, q) == p.n * q.d <= q.n * p.d

\* C1: a scan that is neither cancelled nor hit by an exception returns
\* exactly one ScanResult per alive host (none missing, none twice, none for
\* another address), each with is_alive = True, services found or not.
C1_OneResultPerAliveHost ==
    (Returned /\ ~Cancelled /\ ~Crashed) =>
        /\ ResultIps = Range(alive_hosts)
        /\ Len(results) = Cardinality(Range(alive_hosts))
        /\ Len(results) = Len(alive_hosts)
        /\ \A i \in DOMAIN results : results[i].is_alive

C1_Witness ==
    /\ Returned /\ ~Cancelled /\ ~Crashed
    /\ Len(results) = 2
    /\ \E i, j \in DOMAIN results : results[i].services = <<>> /\ results[j].services # <<>>

\* C2: in a scan that is not cancelled, a service is in the services list of
\* a host's ScanResult exactly when the port check of that (host, service)
\* task reported open; with every check closed the list is empty.
C2_ServicesAreOpenPorts ==
    (Returned /\ ~Cancelled) =>
        \A i \in DOMAIN results :
            /\ \A t \in DOMAIN all_scan_tasks :
                  all_scan_tasks[t].ip = results[i].ip =>
                     (all_scan_tasks[t].service \in Range(results[i].services) <=> t \in port_open)
            /\ Range(results[i].services) \subseteq Range(services_to_scan)
            /\ Len(results[i].services) = Cardinality(Range(results[i].services))

C2_Witness ==
    /\ Returned /\ ~Cancelled
    /\ \E i, j \in DOMAIN results :
          /\ Len(results[i].services) = 1
          /\ results[j].services = <<>>
    /\ Cardinality(port_open) = 1

\* C3: once the port scan is started, the number of port-probe tasks is
\* |alive hosts| x |services|, every task's address is in the alive-host
\* list, and the per-host service map has exactly the alive hosts as keys;
\* without alive hosts no task exists.
C3_TaskMatrix ==
    /\ (pc \in {"port_wait", "assemble"} \/ "port" \in probers) =>
          /\ Len(all_scan_tasks) = Len(hosts) * Len(services_to_scan)
          /\ \A t \in DOMAIN all_scan_tasks :
                /\ all_scan_tasks[t].ip \in HostIps(hosts)
                /\ all_scan_tasks[t].ip \in Range(alive_hosts)
          /\ \A h \in DOMAIN hosts : \A k \in DOMAIN services_to_scan :
                \E t \in DOMAIN all_scan_tasks :
                   all_scan_tasks[t] = [ip |-> hosts[h].ip, service |-> services_to_scan[k]]
          /\ DOMAIN service_results = HostIps(hosts)
    /\ hosts = <<>> => all_scan_tasks = <<>> /\ "port" \notin probers

C3_Witness ==
    /\ pc = "port_wait"
    /\ Len(hosts) = 2
    /\ Len(all_scan_tasks) = 2 * NumServices
    /\ Len(ip_list) > Len(hosts) - 1

\* C4: once stop_scan() has set the flag during host discovery, no
\* port-probe task is submitted.
C4_NoPortScanAfterStopInDiscovery ==
    "discovery" \in stop_log => "port" \notin probers

\* C5: with a malformed range no prober is invoked.
C5_MalformedRangeProbesNothing ==
    ~WellFormed(network_range) => probers = {}

\* C6: the percentages given to the progress callback never decrease, lie in
\* [0, 100], and the last one before scan_network returns is 100, on
\* success, cancellation and failure alike.
C6_ProgressMonotone ==
    /\ \A i \in DOMAIN progress :
          /\ progress[i].d > 0
          /\ 0 <= progress[i].n
          /\ progress[i].n <= 100 * progress[i].d
    /\ \A i \in DOMAIN progress : i > 1 => Leq(progress[i - 1], progress[i])
    /\ Returned => progress # <<>> /\ Last(progress).n = 100 * Last(progress).d

C6_Witness ==
    /\ Returned
    /\ Cancelled
    /\ \E i \in DOMAIN progress : progress[i].msg = "Resolved"
    /\ \E i \in DOMAIN progress : progress[i].msg = "Ping scan:" /\ progress[i].n < 25 * progress[i].d
    /\ Last(progress).n = 100

\* C7: the list scan_network returns is in ascending address order.
C7_ResultsSortedByAddress ==
    Returned =>
        \A i, j \in DOMAIN results : i < j => ToInt(results[i].ip) < ToInt(results[j].ip)

\* C8: a scan hit by an unexpected exception returns no results.
C8_CrashReturnsNothing ==
    (Returned /\ Crashed) => results = <<>>

\* C9: a scan stopped before it returns never returns a proper non-empty
\* prefix of the hosts.
C9_StopReturnsNoPrefix ==
    (Returned /\ Cancelled) => ~(0 < Len(results) /\ Len(results) < Len(hosts))

\* C10: a stop_scan() call made after scan_network was invoked is not lost:
\* the flag the check-points read stays set.
C10_StopNeverLost ==
    (stop_log \cap {"entry", "discovery", "scan"} # {} /\ pc \notin {"idle", "refresh"})
        => _stop_scanning

\* C11: when discovery yields no alive host, scan_network returns an empty
\* list after a last progress event "No hosts found" of 100, reports no
\* error, and has started no hostname lookup and no port-probe task.
C11_NoHostsIsSuccess ==
    (Returned /\ hosts = <<>>) =>
        /\ results = <<>>
        /\ Last(progress) = Event("No hosts found", 100, 1)
        /\ \A i \in DOMAIN progress : progress[i].msg # "Scan failed:"
        /\ crashed \notin ScanPcs
        /\ "hostname" \notin probers
        /\ "port" \notin probers
        /\ all_scan_tasks = <<>>
        /\ pc = "done" => posted = "on_scan_completed"

C11_Witness ==
    /\ pc = "done"
    /\ hosts = <<>>
    /\ ip_list # <<>>
    /\ probers = {"ping", "arp", "tcp"}
    /\ ~Crashed
    /\ stop_log = {}

\* The shapes of a range specification.
IsCidr(toks) ==
    /\ Len(toks) = 9 /\ toks[8] = SLASH /\ toks[9] \in 0..32
    /\ IsAddress(SubSeq(toks, 1, 7))

IsOctetRange(toks) ==
    /\ Len(toks) = 9 /\ toks[8] = DASH /\ toks[9] >= 0
    /\ IsAddress(SubSeq(toks, 1, 7))

Ascending(ips) == \A i \in 1..(Len(ips) - 1) : ToInt(ips[i]) < ToInt(ips[i + 1])

\* C12: the candidate list handed to the liveness strategies has at most
\* 254 entries, the first 254 of the expansion, and so the number of alive
\* hosts is at most 254.
C12_FanOutBounded ==
    pc \in {"capped", "swept", "arp_done"} =>
        /\ Len(ip_list) <= 254
        /\ ip_list = Prefix(parse_ip_range(network_range).ips, 254)
        /\ Len(alive_hosts) <= 254

\* C13: a valid CIDR a.b.c.d/n with n <= 30 expands, before the cap, to
\* exactly 2^(32-n) - 2 addresses in ascending order without duplicates: the
\* addresses strictly between the network and the broadcast address.
C13_CidrHostCount ==
    (pc = "expanded" /\ IsCidr(network_range) /\ network_range[9] <= 30) =>
        LET size  == Pow2(32 - network_range[9])
            first == (ToInt(AddressOf(SubSeq(network_range, 1, 7))) \div size) * size
        IN  /\ Len(ip_list) = size - 2
            /\ Ascending(ip_list)
            /\ Cardinality(Range(ip_list)) = Len(ip_list)
            /\ \A i \in DOMAIN ip_list : ToInt(ip_list[i]) = first + i

C13_Witness ==
    /\ pc = "expanded"
    /\ network_range = <<10, DOT, 0, DOT, 1, DOT, 5, SLASH, 23>>
    /\ Len(ip_list) = 510
    /\ ip_list[1] = <<10, 0, 0, 1>>
    /\ ip_list[510] = <<10, 0, 1, 254>>

\* C14: a.b.c.start-end with start <= end expands to a.b.c.start up to
\* a.b.c.end in ascending order without duplicates, a single address to
\* itself, and a reversed range to the empty list without an error.
C14_OctetRange ==
    /\ (pc \in {"expanded", "expand_failed"} /\ IsOctetRange(network_range)) =>
          LET start == network_range[7]
              end   == network_range[9]
          IN  /\ pc = "expanded"
              /\ start <= end =>
                    /\ Len(ip_list) = end - start + 1
                    /\ \A i \in DOMAIN ip_list :
                          ip_list[i] = <<network_range[1], network_range[3],
                                         network_range[5], start + i - 1>>
                    /\ Ascending(ip_list)
                    /\ Cardinality(Range(ip_list)) = Len(ip_list)
              /\ start > end => ip_list = <<>>
    /\ (pc \in {"expanded", "expand_failed"} /\ IsAddress(network_range)) =>
          /\ pc = "expanded"
          /\ ip_list = <<AddressOf(network_range)>>

C14_Witness ==
    /\ pc = "expanded"
    /\ network_range = <<10, DOT, 0, DOT, 0, DOT, 1, DASH, 254>>
    /\ Len(ip_list) = 254
    /\ ip_list[1] = <<10, 0, 0, 1>>
    /\ ip_list[254] = <<10, 0, 0, 254>>

\* C15: two _get_vendor calls for the same MAC, however written, return the
\* same string; the OUI lookup is made for the first call only; the cache
\* holds what the first call returned and never changes.
C15_VendorCached ==
    /\ \A i, j \in DOMAIN vendor_returned :
          Normalize(vendor_returned[i].mac) = Normalize(vendor_returned[j].mac)
             => vendor_returned[i].vendor = vendor_returned[j].vendor
    /\ \A i, j \in DOMAIN oui_lookups : oui_lookups[i] = oui_lookups[j] => i = j
    /\ Range(oui_lookups) = DOMAIN vendor_cache
    /\ \A i \in DOMAIN vendor_returned :
          /\ Normalize(vendor_returned[i].mac) \in DOMAIN vendor_cache
          /\ vendor_cache[Normalize(vendor_returned[i].mac)] = vendor_returned[i].vendor

C15_Witness ==
    /\ Len(vendor_returned) = 3
    /\ Len(oui_lookups) = 1
    /\ vendor_returned[1].mac # vendor_returned[2].mac
    /\ vendor_returned[2].mac = vendor_returned[3].mac
    /\ vendor_returned[1].mac[1] = 10
    /\ vendor_returned[2].mac[1] = 20
    /\ vendor_returned[1].mac[3] = COLON
    /\ vendor_returned[2].mac[3] = DASH
    /\ vendor_returned[3].vendor = "Vendor"

\* C16: once stop_scan() has set the flag during the ping sweep, no TCP
\* probe and no hostname lookup is started.
C16_NoProbeAfterStopInPing ==
    "ping" \in stop_log => "tcp" \notin probers /\ "hostname" \notin probers

\* C17: the strategies only supplement one another: no address is in the
\* alive-host list twice, whatever the completion order of the probes, and
\* the list discovery returns has one entry per address.
C17_StrategiesSupplement ==
    /\ Len(alive_hosts) = Cardinality(Range(alive_hosts))
    /\ pc \in DiscoveryPcs => discovered_ips = Range(alive_hosts)
    /\ found_in_probe \subseteq Range(alive_hosts)
    /\ Len(hosts) = Cardinality(HostIps(hosts))
    /\ HostIps(hosts) \subseteq Range(alive_hosts)

C17_Witness ==
    /\ pc = "discovered"
    /\ network_range = <<10, DOT, 0, DOT, 0, DOT, 0, SLASH, 30>>
    /\ arp_table = {<<10, 0, 0, 2>>, <<10, 0, 0, 3>>}
    /\ alive_hosts = <<<<10, 0, 0, 2>>, <<10, 0, 0, 3>>>>
    /\ Len(hosts) = 2
    /\ probers = {"ping", "arp", "tcp"}

\* C18: for every range format, after the neighbor-table step every table
\* entry whose address is inside the range specification is alive (in a
\* scan no stop_scan() call interferes with).
C18_NeighborsInRangeAdded ==
    (pc = "tcp" /\ ~parse_ip_range(network_range).err /\ stop_log = {}) =>
        \A ip \in arp_table :
            ip \in Range(parse_ip_range(network_range).ips) => ip \in discovered_ips

\* C19: the TCP probes in flight target only candidates not confirmed by the
\* ping sweep or the neighbor table: the first 50 of them in candidate
\* order (all of them when fewer), each on the ports 22, 80, 443, 445 and
\* 3389 and on no other.
C19_TcpProbeTargets ==
    pc = "tcp_wait" =>
        LET confirmed == discovered_ips \ found_in_probe
            silent    == SelectSeq(ip_list, LAMBDA ip : ip \notin confirmed)
            n         == IF Len(silent) < 50 THEN Len(silent) ELSE 50
            ports     == <<22, 80, 443, 445, 3389>>
        IN  /\ Len(port_futures) = 5 * n
            /\ \A k \in DOMAIN port_futures :
                  /\ port_futures[k][1] = silent[((k - 1) \div 5) + 1]
                  /\ port_futures[k][2] = ports[((k - 1) % 5) + 1]
                  /\ port_futures[k][1] \notin confirmed
            /\ Cardinality({port_futures[k][1] : k \in DOMAIN port_futures}) <= 50

C19_Witness ==
    /\ pc = "tcp_wait"
    /\ Len(ip_list) = 254 - MaxHost
    /\ alive_hosts = <<ip_list[1]>>
    /\ Len(port_futures) = 250
    /\ port_futures[1][1] = ip_list[2]
    /\ port_futures[250][1] = ip_list[51]

\* C20: the pings are submitted in consecutive batches of at most 100; at
\* most min(discovery_threads, 25) pings are in flight at any moment; and
\* between two batches, and when the sweep is over, no ping is queued or in
\* flight, also after the result loop was left early.
C20_PingBatches ==
    /\ running <= Min(discovery_threads, 25)
    /\ queued + running <= 100
    /\ batch_start % 100 = 0
    /\ pc \in {"ping_loop", "arp"} => queued = 0 /\ running = 0

C20_Witness ==
    /\ pc = "ping_exit"
    /\ _stop_scanning
    /\ batch_start = 100
    /\ discovery_threads = 130
    /\ running = 25
    /\ queued > 0

\* C21 as stated: whatever a port probe met short of an answer (a refusal,
\* a timeout, an unreachable network, an exception), its (host, service)
\* pair is not recorded as open.
C21_FailureNotOpen ==
    \A t \in DOMAIN task_outcome : task_outcome[t] # "answered" => t \notin port_open

\* The (host, service) pairs whose probe gave open: an answer, or for a UDP
\* service the reply timeout.
C21_Open ==
    {t \in DOMAIN task_outcome :
        \/ task_outcome[t] = "answered"
        \/ /\ all_scan_tasks[t].service.protocol = "udp"
           /\ task_outcome[t] = "timeout"}

\* C21, amended: a port probe that fails (refusal, unreachable network,
\* exception, and for TCP a timeout) is recorded as not open for its own
\* (host, service) pair only, a UDP probe whose reply times out being
\* recorded as open; no failure ends the scan, which returns every host
\* with exactly the services whose own probe gave open.
C21_FailureIsolated ==
    /\ port_open = C21_Open
    /\ crashed = "no"
    /\ (Returned /\ stop_log = {})
          => /\ Last(progress).msg = "Scan completed"
             /\ Len(results) = Len(hosts)
             /\ \A i \in DOMAIN results :
                   /\ results[i].ip = hosts[i].ip
                   /\ Range(results[i].services) =
                         {all_scan_tasks[t].service :
                             t \in {u \in C21_Open : all_scan_tasks[u].ip = results[i].ip}}

\* A scan of two hosts has returned; on the first host the TCP probe raised
\* and the UDP probe was answered, on the second the TCP probe was answered.
C21_Witness ==
    /\ pc = "done"
    /\ stop_log = {}
    /\ Len(hosts) = 2
    /\ DOMAIN task_outcome = 1..4
    /\ task_outcome[1] = "raised"
    /\ task_outcome[2] = "answered"
    /\ task_outcome[3] = "answered"
    /\ task_outcome[4] = "refused"
    /\ Len(results[1].services) = 1
    /\ Len(results[2].services) = 1

\* C22: when a liveness strategy raised (here the last one, the TCP
\* probe), the hosts the earlier strategies confirmed are in the host list
\* the discovery returns.
C22_ConfirmedHostsKept ==
    (/\ pc = "discovered"
     /\ crashed \in {"tcp", "tcp_wait"}
     /\ Len(ip_list) > Len(alive_hosts)
     /\ stop_log = {})
        => Range(alive_hosts) \subseteq HostIps(hosts)

\* C23: once the _get_hostname calls made in parallel, one per host, have
\* all returned, the process-wide default socket timeout is what it was
\* before the calls (None).
C23_TimeoutRestored ==
    (/\ calls # <<>>
     /\ \A c \in DOMAIN calls : calls[c].at = "done"
     /\ \A c, d \in DOMAIN calls : c # d => calls[c].ip # calls[d].ip)
        => default_timeout = None

\* C24: every host the discovery returns is one of the candidate addresses
\* expanded from the range specification (after the cut to 254).
C24_AliveAreCandidates ==
    (pc = "discovered" /\ crashed = "no" /\ stop_log = {})
        => HostIps(hosts) \subseteq Range(ip_list)

Final == {"passed", "failed"}

\* C26: in a diagnostics run (the only one on its instance), a step of the
\* basic group has started only if the step before it is PASSED or FAILED,
\* steps 3 and 4 only if step 2 is, the connectivity steps only if steps 3
\* and 4 are; and when the run is over every step is PASSED or FAILED,
\* whichever steps failed.
C26_Barriers ==
    Len(diag_threads) = 1 =>
        LET st == step_lists[1]
        IN  /\ \A i \in {1, 2} : st[i] # "pending" => st[i - 1] \in Final
            /\ \A i \in Range(config_group) : st[i] # "pending" => st[2] \in Final
            /\ \A i \in Range(connectivity_group) :
                  st[i] # "pending" => st[3] \in Final /\ st[4] \in Final
            /\ diag_threads[1].at = "done" => \A i \in StepIndices : st[i] \in Final

\* A single run is over in which steps 2 and 4 failed and the steps after
\* them passed.
C26_Witness ==
    /\ Len(diag_threads) = 1
    /\ diag_threads[1].at = "done"
    /\ step_lists[1][2] = "failed"
    /\ step_lists[1][4] = "failed"
    /\ step_lists[1][3] = "passed"
    /\ \A i \in Range(connectivity_group) : step_lists[1][i] = "passed"

\* C27: for every run_diagnostics call whose thread has ended, the
\* completion callback given to that call has been invoked exactly once,
\* with is_running False and every step PASSED or FAILED at that moment.
C27_CompletedOnce ==
    \A r \in DOMAIN diag_threads :
        diag_threads[r].at = "done" =>
            /\ Cardinality({k \in DOMAIN completions : completions[k].callback = r}) = 1
            /\ \A k \in DOMAIN completions :
                  completions[k].callback = r =>
                      /\ ~completions[k].is_running
                      /\ \A i \in StepIndices : completions[k].statuses[i] \in Final

\* C28: at most one _scan_loop thread is running at any time.
C28_OneScanLoop ==
    Cardinality({t \in DOMAIN scan_threads : Alive(scan_threads[t])}) <= 1

\* C29: every list on_scan_completed receives is the result of the scan
\* started last.
C29_ResultsOfLatestScan ==
    \A k \in DOMAIN delivered : delivered[k].results = delivered[k].started

\* C30: no two custom services share the same (port, protocol) pair.
C30_NoDuplicatePairs ==
    \A i, j \in DOMAIN custom_services :
        (/\ custom_services[i].port = custom_services[j].port
         /\ custom_services[i].protocol = custom_services[j].protocol) => i = j

====
